---- MODULE Spec2Model ----
(***************************************************************************)
(* Model of src/app.py: the parts API in front of a remote spreadsheet.    *)
(*                                                                         *)
(* A text (an identifier, a cell, a query) is a sequence of one-character  *)
(* strings, so that the identifier allocator can look inside it.  A        *)
(* natural number of unbounded size (Python int) is a sequence of decimal  *)
(* digits 0..9, most significant first, without leading zeros.             *)
(***************************************************************************)
EXTENDS Integers, Sequences, FiniteSets, TLC

(***************************************************************************)
(* Python int arithmetic on decimal digit sequences.                       *)
(***************************************************************************)
Last(s) == s[Len(s)]

Front(s) == SubSeq(s, 1, Len(s) - 1)

RECURSIVE StripZeros(_)
StripZeros(d) ==
    IF d = <<>> THEN <<0>>
    ELSE IF Len(d) > 1 /\ Head(d) = 0 THEN StripZeros(Tail(d))
    ELSE d

RECURSIVE LexLess(_, _)
LexLess(a, b) ==
    IF a = <<>> THEN FALSE
    ELSE IF Head(a) # Head(b) THEN Head(a) < Head(b)
    ELSE LexLess(Tail(a), Tail(b))

NatLess(a, b) ==
    \/ Len(a) < Len(b)
    \/ Len(a) = Len(b) /\ LexLess(a, b)

RECURSIVE NatInc(_)
NatInc(d) ==
    IF d = <<>> THEN <<1>>
    ELSE IF Last(d) < 9 THEN Append(Front(d), Last(d) + 1)
    ELSE Append(NatInc(Front(d)), 0)

\* k*d + c as the digits of d's places with the carry out (a number, not a
\* digit) in front: for a small multiplier k and a carry c < k
RECURSIVE MulDigits(_, _, _)
MulDigits(d, k, c) ==
    IF d = <<>> THEN <<c>>
    ELSE LET v == k * Last(d) + c
         IN  Append(MulDigits(Front(d), k, v \div 10), v % 10)

\* the digits of a small number
RECURSIVE SmallDigits(_)
SmallDigits(n) == IF n < 10 THEN <<n>> ELSE Append(SmallDigits(n \div 10), n % 10)

NatMul(d, k, c) ==
    LET r == MulDigits(d, k, c) IN StripZeros(SmallDigits(Head(r)) \o Tail(r))

NatDouble(d, c) == NatMul(d, 2, c)

\* d \div k for a small divisor k, r the remainder carried in
RECURSIVE DivDigits(_, _, _)
DivDigits(d, k, r) ==
    IF d = <<>> THEN <<>>
    ELSE LET v == 10 * r + Head(d)
         IN  <<v \div k>> \o DivDigits(Tail(d), k, v % k)

NatDiv(d, k) == StripZeros(DivDigits(d, k, 0))

NatHalf(d) == NatDiv(d, 2)

NatOdd(d) == Last(d) % 2 = 1

(***************************************************************************)
(* Python float (IEEE 754 binary64) of a non-negative decimal literal: a   *)
(* float is [m, e] standing for m * 2^e with 2^52 <= m < 2^53, or zero.    *)
(* The literal is its integer digits ip and its fraction digits fp, and is *)
(* rounded to nearest, ties to even.                                       *)
(***************************************************************************)
MantissaBits == 53

\* 2^53 and 2^52
TwoToMant == <<9, 0, 0, 7, 1, 9, 9, 2, 5, 4, 7, 4, 0, 9, 9, 2>>

TwoToMantLess1 == NatHalf(TwoToMant)

FloatZero == [m |-> <<0>>, e |-> 0]

FracZero(f) == \A i \in 1..Len(f) : f[i] = 0

RECURSIVE ShiftRight(_, _, _, _)
ShiftRight(n, e, guard, sticky) ==
    IF NatLess(n, TwoToMant) THEN [m |-> n, e |-> e, g |-> guard, s |-> sticky]
    ELSE ShiftRight(NatHalf(n), e + 1, NatOdd(n), sticky \/ guard)

\* x = [m, f, e]: the integer part so far, the fraction digits left, the
\* exponent; eight binary places at a time while that stays below 2^52
ChunkBits == 8

Chunk == 256

RECURSIVE ShiftLeft(_)
ShiftLeft(x) ==
    IF ~NatLess(x.m, TwoToMantLess1) THEN x
    ELSE IF NatLess(NatMul(x.m, Chunk, Chunk - 1), TwoToMantLess1)
    THEN LET d == MulDigits(x.f, Chunk, 0)
         IN  ShiftLeft([m |-> NatMul(x.m, Chunk, Head(d)), f |-> Tail(d),
                        e |-> x.e - ChunkBits])
    ELSE LET d == MulDigits(x.f, 2, 0)
         IN  ShiftLeft([m |-> NatMul(x.m, 2, Head(d)), f |-> Tail(d), e |-> x.e - 1])

RoundHalfEven(m, e, guard, sticky) ==
    IF guard /\ (sticky \/ NatOdd(m))
    THEN LET m1 == NatInc(m)
         IN  IF m1 = TwoToMant THEN [m |-> TwoToMantLess1, e |-> e + 1]
             ELSE [m |-> m1, e |-> e]
    ELSE [m |-> m, e |-> e]

PyFloat(ip, fp) ==
    IF ip = <<0>> /\ FracZero(fp) THEN FloatZero
    ELSE IF ~NatLess(ip, TwoToMant)
    THEN LET r == ShiftRight(ip, 0, FALSE, ~FracZero(fp))
         IN  RoundHalfEven(r.m, r.e, r.g, r.s)
    ELSE LET l == ShiftLeft([m |-> ip, f |-> fp, e |-> 0])
             d == MulDigits(l.f, 2, 0)
         IN  RoundHalfEven(l.m, l.e, Head(d) = 1, ~FracZero(Tail(d)))

FloatLess(a, b) ==
    IF a.m = <<0>> THEN b.m # <<0>>
    ELSE IF b.m = <<0>> THEN FALSE
    ELSE a.e < b.e \/ (a.e = b.e /\ NatLess(a.m, b.m))

RECURSIVE FloatMax(_)
FloatMax(fs) ==
    IF Len(fs) = 1 THEN fs[1]
    ELSE LET rest == FloatMax(Tail(fs))
         IN  IF FloatLess(Head(fs), rest) THEN rest ELSE Head(fs)

\* int(x) of a float: truncation of m * 2^e
RECURSIVE PyIntOfFloat(_)
PyIntOfFloat(x) ==
    IF x.e = 0 THEN x.m
    ELSE IF x.e > 0 THEN PyIntOfFloat([m |-> NatDouble(x.m, 0), e |-> x.e - 1])
    ELSE IF x.e <= -ChunkBits
    THEN PyIntOfFloat([m |-> NatDiv(x.m, Chunk), e |-> x.e + ChunkBits])
    ELSE PyIntOfFloat([m |-> NatHalf(x.m), e |-> x.e + 1])

(***************************************************************************)
(* Texts.                                                                  *)
(***************************************************************************)
DigitChars == <<"0", "1", "2", "3", "4", "5", "6", "7", "8", "9">>

IsDigitChar(c) == \E d \in 1..10 : DigitChars[d] = c

DigitVal(c) == (CHOOSE d \in 1..10 : DigitChars[d] = c) - 1

\* str.isdigit()
isdigit(s) == Len(s) > 0 /\ \A i \in 1..Len(s) : IsDigitChar(s[i])

\* str.replace('.', '')
IsNotDot(c) == c # "."

replace_dots(s) == SelectSeq(s, IsNotDot)

\* int(s) of a digit text, and str(n) of an int
PyInt(s) == StripZeros([i \in 1..Len(s) |-> DigitVal(s[i])])

PyStr(n) == [i \in 1..Len(n) |-> DigitChars[n[i] + 1]]

\* f"{n:03d}"
RECURSIVE ZeroPad(_, _)
ZeroPad(s, width) == IF Len(s) >= width THEN s ELSE ZeroPad(<<"0">> \o s, width)

PadWidth == 3

Format03d(n) == ZeroPad(PyStr(n), PadWidth)

\* float(s) of a text made of digits and dots: a ValueError ("raise") when
\* it holds more than one dot
DotPositions(s) == {i \in 1..Len(s) : s[i] = "."}

FloatOfText(s) ==
    IF Cardinality(DotPositions(s)) > 1 THEN "raise"
    ELSE IF DotPositions(s) = {} THEN PyFloat(PyInt(s), <<>>)
    ELSE LET p == CHOOSE i \in DotPositions(s) : TRUE
             ip == SubSeq(s, 1, p - 1)
             fp == SubSeq(s, p + 1, Len(s))
         IN  PyFloat(PyInt(ip), [i \in 1..Len(fp) |-> DigitVal(fp[i])])

\* the length of the digit run that ends the text: what r'(\d+)$' matches
RECURSIVE TrailingRun(_)
TrailingRun(s) ==
    IF s = <<>> \/ ~IsDigitChar(Last(s)) THEN 0
    ELSE 1 + TrailingRun(Front(s))

TrailingDigits(s) == SubSeq(s, Len(s) - TrailingRun(s) + 1, Len(s))

\* r'^(.+?)(\d+)$': at least one character, then digits to the end
PrefixMatches(s) == Len(s) >= 2 /\ TrailingRun(s) >= 1

PrefixGroup(s) ==
    IF TrailingRun(s) = Len(s) THEN SubSeq(s, 1, 1)
    ELSE SubSeq(s, 1, Len(s) - TrailingRun(s))

(***************************************************************************)
(* The identifier allocator, src/app.py lines 56-125.                      *)
(***************************************************************************)
ID_HEADER == <<"I", "D">>

ONE == <<"1">>

FRS == <<"F", "R", "S">>

FRS_001 == <<"F", "R", "S", "-", "0", "0", "1">>

IsNonEmpty(s) == s # <<>>

\* lines 100-105: the largest number that ends an identifier, 0 when none does
RECURSIVE max_num(_)
max_num(existing_ids) ==
    IF existing_ids = <<>> THEN <<0>>
    ELSE LET rest == max_num(Front(existing_ids))
             id_str == Last(existing_ids)
             num == PyInt(TrailingDigits(id_str))
         IN  IF TrailingRun(id_str) >= 1 /\ NatLess(rest, num) THEN num ELSE rest

\* lines 112-119: the prefix of the first identifier the prefix pattern matches
RECURSIVE prefix(_)
prefix(existing_ids) ==
    IF existing_ids = <<>> THEN FRS
    ELSE IF PrefixMatches(Head(existing_ids)) THEN PrefixGroup(Head(existing_ids))
    ELSE prefix(Tail(existing_ids))

generate_next_alphanumeric_id(existing_ids) ==
    IF max_num(existing_ids) = <<0>> THEN FRS_001
    ELSE prefix(existing_ids) \o Format03d(NatInc(max_num(existing_ids)))

\* line 76
all_numeric(existing_ids) ==
    \A i \in 1..Len(existing_ids) : isdigit(replace_dots(existing_ids[i]))

\* line 80; a float() that raises sends get_next_id to its except clause
numeric_ids_raise(existing_ids) ==
    \E i \in 1..Len(existing_ids) : Cardinality(DotPositions(existing_ids[i])) > 1

numeric_ids(existing_ids) ==
    [i \in 1..Len(existing_ids) |-> FloatOfText(existing_ids[i])]

\* get_next_id without lines 66-67: the header cell counts as an identifier
get_next_id_header_kept(col_ok, coluna) ==
    IF ~col_ok THEN ONE
    ELSE LET existing_ids == SelectSeq(coluna, IsNonEmpty)
         IN  IF existing_ids = <<>> THEN ONE
             ELSE IF all_numeric(existing_ids)
             THEN IF numeric_ids_raise(existing_ids) THEN ONE
                  ELSE PyStr(NatInc(PyIntOfFloat(FloatMax(numeric_ids(existing_ids)))))
             ELSE generate_next_alphanumeric_id(existing_ids)

\* col_ok is FALSE when worksheet.col_values(1) raised; coluna is what it
\* returned otherwise
get_next_id(col_ok, coluna) ==
    IF ~col_ok THEN ONE
    ELSE LET coluna_ids == IF coluna # <<>> /\ coluna[1] = ID_HEADER
                           THEN Tail(coluna) ELSE coluna
             existing_ids == SelectSeq(coluna_ids, IsNonEmpty)
         IN  IF existing_ids = <<>> THEN ONE
             ELSE IF all_numeric(existing_ids)
             THEN IF numeric_ids_raise(existing_ids) THEN ONE
                  ELSE PyStr(NatInc(PyIntOfFloat(FloatMax(numeric_ids(existing_ids)))))
             ELSE generate_next_alphanumeric_id(existing_ids)

(***************************************************************************)
(* The spreadsheet behind CLIENT (gspread).  A worksheet is its data rows  *)
(* below the header row 'ID', 'peca', ...; a row is its eight cells, each  *)
(* a text; rows past the last non-blank row are blank.                     *)
(***************************************************************************)
SPREADSHEET_ID == "1vmIKVDCVs-KbINHRUnVlyyQVE-5JXV4rIme8dJB-keI"

NumCols == 8

EMPTY == <<>>

BlankRow == [c \in 1..NumCols |-> EMPTY]

RECURSIVE TrimBlankRows(_)
TrimBlankRows(rows) ==
    IF rows # <<>> /\ Last(rows) = BlankRow THEN TrimBlankRows(Front(rows))
    ELSE rows

RECURSIVE TrimEmptyCells(_)
TrimEmptyCells(col) ==
    IF col # <<>> /\ Last(col) = EMPTY THEN TrimEmptyCells(Front(col))
    ELSE col

\* worksheet.col_values(1): the first column, header included, up to its
\* last non-empty cell
col_values(rows) ==
    TrimEmptyCells(<<ID_HEADER>> \o [i \in 1..Len(rows) |-> rows[i][1]])

\* gspread's numericise of a cell: int(value), else float(value), else the
\* text.  A number is kept as [num |-> TRUE, s |-> str(number)].
StripTrailingZeros(f) ==
    LET k == IF FracZero([i \in 1..Len(f) |-> DigitVal(f[i])]) THEN 0
         ELSE CHOOSE j \in 1..Len(f) :
                 f[j] # "0" /\ \A i \in (j + 1)..Len(f) : f[i] = "0"
    IN  IF k = 0 THEN <<"0">> ELSE SubSeq(f, 1, k)

IsFloatText(s) ==
    /\ isdigit(replace_dots(s))
    /\ Cardinality(DotPositions(s)) = 1

\* str(float(s)) of a short decimal text (at most 15 significant digits,
\* below 1e16): Python's repr gives the digits back, normalised
StrOfFloatText(s) ==
    LET p == CHOOSE i \in DotPositions(s) : TRUE
    IN  PyStr(PyInt(SubSeq(s, 1, p - 1))) \o <<".">>
          \o StripTrailingZeros(SubSeq(s, p + 1, Len(s)))

numericise(cell) ==
    IF isdigit(cell) THEN [num |-> TRUE, s |-> PyStr(PyInt(cell))]
    ELSE IF IsFloatText(cell) THEN [num |-> TRUE, s |-> StrOfFloatText(cell)]
    ELSE [num |-> FALSE, s |-> cell]

\* worksheet.get_all_records(): one record per data row, keyed by the header
\* (here: by column), its values numericised
get_all_records(rows) ==
    [i \in 1..Len(rows) |-> [c \in 1..NumCols |-> numericise(rows[i][c])]]

\* worksheet.append_row(values)
append_row(rows, values) == Append(rows, values)

\* worksheet.update_cell(row, col, value); row counts the header as row 1
update_cell(rows, row, col, value) ==
    LET n == IF row - 1 > Len(rows) THEN row - 1 ELSE Len(rows)
        padded == [i \in 1..n |-> IF i <= Len(rows) THEN rows[i] ELSE BlankRow]
    IN  TrimBlankRows([padded EXCEPT ![row - 1][col] = value])

\* delete_rows with the header row not counted: the row below is removed
delete_rows_below(rows, row) ==
    IF row > Len(rows) THEN rows
    ELSE TrimBlankRows(SubSeq(rows, 1, row - 1) \o SubSeq(rows, row + 1, Len(rows)))

\* worksheet.delete_rows(row)
delete_rows(rows, row) ==
    IF row - 1 > Len(rows) THEN rows
    ELSE TrimBlankRows(SubSeq(rows, 1, row - 2) \o SubSeq(rows, row, Len(rows)))

(***************************************************************************)
(* State.                                                                  *)
(***************************************************************************)
VARIABLES
    sheets,                 \* the spreadsheet: worksheet name -> data rows
    worksheet_cache,        \* line 53: cache key -> worksheet handle
    worksheet_cache_time,   \* line 54: cache key -> time stored
    response_cache,         \* line 49: flask-caching's SimpleCache of GET /pecas
    now,                    \* time.time(), in seconds
    pc,                     \* per request slot: where its handler stands
    req,                    \* per request slot: the HTTP request
    loc,                    \* per request slot: the handler's local variables
    resp,                   \* per request slot: the HTTP response
    failed,                 \* history: a store call of the request raised
    raised,                 \* history: the exception the handler caught, "" when none
    before,                 \* history: sheets and caches when the request came
    emptied,                \* history: worksheets whose last write deleted their only row
    appended,               \* history: rows created and not written to since
    nreq,                   \* history: number of requests received
    coluna_ids,             \* allocator run: the identifier column given
    next_id,                \* allocator run: the identifier returned
    alloc_done              \* allocator run: get_next_id has returned

vars == <<sheets, worksheet_cache, worksheet_cache_time, response_cache, now,
          pc, req, loc, resp, failed, raised, before, emptied, appended, nreq,
          coluna_ids, next_id, alloc_done>>

\* the service starts with no allocator run pending
NoColumn == <<>>

storeVars == <<sheets, worksheet_cache, worksheet_cache_time, response_cache>>

allocVars == <<coluna_ids, next_id, alloc_done>>

histVars == <<emptied, appended>>

(***************************************************************************)
(* Requests and responses.  An optional value (a query argument, a JSON    *)
(* body) is a sequence of length 0 or 1.  A JSON object is a record.       *)
(***************************************************************************)
Procs == {1, 2}

Worksheets == {"freios"}

RESPONSE_TIMEOUT == 10

WORKSHEET_TTL == 300

\* the fields written, with the identifier among them
campos_with_ID == <<"ID", "peca", "quantidade", "material", "massa(g)", "valor($)",
                    "descricao", "fornecedor">>

campos == <<"peca", "quantidade", "material", "massa(g)", "valor($)",
            "descricao", "fornecedor">>

\* line 282: col_indices
col_indices(campo) ==
    CASE campo = "ID" -> 1
      [] campo = "peca" -> 2
      [] campo = "quantidade" -> 3
      [] campo = "material" -> 4
      [] campo = "massa(g)" -> 5
      [] campo = "valor($)" -> 6
      [] campo = "descricao" -> 7
      [] campo = "fornecedor" -> 8

NoReq == [method |-> "", args |-> [pagina |-> <<>>, busca |-> <<>>],
          peca_id |-> <<>>, body |-> <<>>]

NoLoc == [worksheet |-> "", next_id |-> EMPTY, linha_index |-> 0, todo |-> <<>>]

NoResp == [status |-> 0, payload |-> [none |-> TRUE]]

NoBefore == [sheets |-> <<>>, worksheet_cache |-> <<>>, worksheet_cache_time |-> <<>>]

cache_key(worksheet_name) == <<SPREADSHEET_ID, worksheet_name>>

Put(f, k, v) == [x \in DOMAIN f \cup {k} |-> IF x = k THEN v ELSE f[x]]

Remove(f, k) == [x \in DOMAIN f \ {k} |-> f[x]]

\* dict.get(key, default) on a JSON object
Get(data, key, default) == IF key \in DOMAIN data THEN data[key] ELSE default

\* `not data` of request.get_json(): no body (None), or an empty object
NotData(body) == body = <<>> \/ DOMAIN body[1] = {}

\* the except clauses with `except Exception` tried before `except APIError`
ErrorResponse_generic_first(exc, pagina) ==
    CASE exc = "WorksheetNotFound" ->
             [status |-> 404, payload |-> [erro |-> "Pagina nao encontrada", pagina |-> pagina]]
      [] exc \in {"APIError", "Exception"} ->
             [status |-> 500, payload |-> [erro |-> "Erro interno no servidor"]]

\* the except clauses of the four handlers
ErrorResponse(exc, pagina) ==
    CASE exc = "WorksheetNotFound" ->
             [status |-> 404, payload |-> [erro |-> "Pagina nao encontrada", pagina |-> pagina]]
      [] exc = "APIError" ->
             [status |-> 502, payload |-> [erro |-> "Problema com o Google Sheets"]]
      [] exc = "Exception" ->
             [status |-> 500, payload |-> [erro |-> "Erro interno no servidor"]]

\* what a store call can raise besides its own not-found
StoreErrors == {"APIError", "Exception"}

\* lines 230-235: "Invalidar cache para esta categoria"
Invalidated(cache, categoria) == Remove(cache, cache_key(categoria))

(***************************************************************************)
(* Bounds and the inputs the requests are drawn from.                      *)
(***************************************************************************)
MaxRequests == 2

MaxCacheRequests == 3

MaxIds == 3

MaxRows == 3

\* the clock readings tried: 5 seconds apart (within RESPONSE_TIMEOUT), 295
\* (past it, within WORKSHEET_TTL) and 300 (WORKSHEET_TTL)
TimePoints == {0, 5, 300}

t1 == <<"1">>

t2 == <<"2">>

t7 == <<"7">>

t007 == <<"0", "0", "7">>

tAb == <<"A", "b">>

tb == <<"b">>

tX == <<"X">>

tY == <<"Y">>

\* 2^53 + 1
tBig == <<"9", "0", "0", "7", "1", "9", "9", "2", "5", "4", "7", "4", "0", "9", "9", "3">>

Row(id, peca, material) == <<id, peca, EMPTY, material, EMPTY, EMPTY, EMPTY, EMPTY>>

InitSheets ==
    { <<>>,
      <<Row(t2, tAb, EMPTY)>>,
      <<Row(t1, tAb, EMPTY), Row(t2, tX, t7)>>,
      <<Row(t2, tX, EMPTY), Row(t2, tY, EMPTY)>>,
      <<Row(t007, tX, EMPTY)>>,
      <<Row(EMPTY, tX, EMPTY)>>,
      <<Row(t2, tX, EMPTY), Row(t7, tY, EMPTY), Row(t1, tAb, EMPTY)>>,
      <<Row(tBig, tX, EMPTY)>> }

PathIds == {t2, t7}

Bodies ==
    { <<>>,
      << <<>> >>,
      << [peca |-> tX] >>,
      << [categoria |-> ""] >>,
      << [categoria |-> "nope"] >>,
      << [categoria |-> "freios"] >>,
      << [categoria |-> "freios", peca |-> tY, material |-> tX] >>,
      << [categoria |-> "freios", ID |-> t7, fornecedor |-> tX] >> }

ListArgs ==
    { [pagina |-> <<>>, busca |-> <<>>],
      [pagina |-> <<"nope">>, busca |-> <<>>],
      [pagina |-> <<>>, busca |-> <<tb>>] }

InvalidBodies == {b \in Bodies : NotData(b) \/ Get(b[1], "categoria", "") = ""}

Request(method, args, peca_id, body) ==
    [method |-> method, args |-> args, peca_id |-> peca_id, body |-> body]

NoArgs == [pagina |-> <<>>, busca |-> <<>>]

Requests ==
    {Request("GET", a, EMPTY, <<>>) : a \in ListArgs}
    \cup {Request("POST", NoArgs, EMPTY, b) : b \in Bodies}
    \cup {Request("PUT", NoArgs, i, b) : i \in PathIds, b \in Bodies \ InvalidBodies}
    \cup {Request("DELETE", NoArgs, i, b) :
             i \in PathIds, b \in {c \in Bodies \ InvalidBodies : DOMAIN c[1] = {"categoria"}}}
    \cup {Request(m, NoArgs, t2, b) : m \in {"PUT", "DELETE"}, b \in InvalidBodies}

(***************************************************************************)
(* The handlers.  A step is the code up to and including one call of the   *)
(* spreadsheet API; requests interleave between steps.                     *)
(***************************************************************************)
\* the worksheet a request names: `pagina` (line 154) or `categoria`
Target(r) ==
    IF r.method = "GET"
    THEN (IF r.args.pagina = <<>> THEN "freios" ELSE r.args.pagina[1])
    ELSE Get(r.body[1], "categoria", "")

\* the response leaves the handler; @cache.cached (line 151) stores what
\* get_pecas returned under the request's query string
Reply(p, r) ==
    /\ resp' = [resp EXCEPT ![p] = r]
    /\ pc' = [pc EXCEPT ![p] = "done"]
    /\ response_cache' =
           IF req[p].method = "GET"
           THEN Put(response_cache, req[p].args,
                    [rv |-> r, expires |-> now + RESPONSE_TIMEOUT])
           ELSE response_cache

\* a store call raised exc: the handler's except clause answers
Raise(p, exc) ==
    /\ Reply(p, ErrorResponse(exc, Target(req[p])))
    /\ failed' = [failed EXCEPT ![p] = TRUE]
    /\ raised' = [raised EXCEPT ![p] = exc]

\* the validation without the test of `categoria` (lines 205-207)
Validation_body_only(body) ==
    IF NotData(body)
    THEN [status |-> 400, payload |-> [erro |-> "Dados JSON necessarios"]]
    ELSE NoResp

\* lines 201-207, 258-264, 324-330: the 400 the body earns, NoResp when it
\* passes.  request.get_json() is taken to give None for a request without a
\* body, the case `if not data` is written for.
Validation(body) ==
    IF NotData(body)
    THEN [status |-> 400, payload |-> [erro |-> "Dados JSON necessarios"]]
    ELSE IF Get(body[1], "categoria", "") = ""
    THEN [status |-> 400, payload |-> [erro |-> "Categoria nao fornecida"]]
    ELSE NoResp

\* a request arrives: flask-caching answers a GET from its cache (line 151);
\* the other handlers validate the body
Start(p, r) ==
    /\ pc[p] \in {"idle", "done"}
    /\ r.method = "POST" => \A w \in Worksheets : Len(sheets[w]) < MaxRows
    /\ nreq' = nreq + 1
    /\ req' = [req EXCEPT ![p] = r]
    /\ before' = [before EXCEPT ![p] =
                     [sheets |-> sheets, worksheet_cache |-> worksheet_cache,
                      worksheet_cache_time |-> worksheet_cache_time]]
    /\ loc' = [loc EXCEPT ![p] = NoLoc]
    /\ failed' = [failed EXCEPT ![p] = FALSE]
    /\ raised' = [raised EXCEPT ![p] = ""]
    /\ IF r.method = "GET"
       THEN IF r.args \in DOMAIN response_cache
                /\ response_cache[r.args].expires > now
            THEN /\ resp' = [resp EXCEPT ![p] = response_cache[r.args].rv]
                 /\ pc' = [pc EXCEPT ![p] = "done"]
            ELSE /\ pc' = [pc EXCEPT ![p] = "open"]
                 /\ resp' = [resp EXCEPT ![p] = NoResp]
       ELSE /\ resp' = [resp EXCEPT ![p] = Validation(r.body)]
            /\ pc' = [pc EXCEPT ![p] = IF Validation(r.body) = NoResp THEN "open" ELSE "done"]
    /\ UNCHANGED <<storeVars, now, histVars, allocVars>>

\* CLIENT.open_by_key(SPREADSHEET_ID), lines 158, 209, 266, 332
Open(p) ==
    /\ pc[p] = "open"
    /\ \/ /\ pc' = [pc EXCEPT ![p] = "worksheet"]
          /\ UNCHANGED <<resp, response_cache, failed, raised>>
       \/ \E exc \in StoreErrors : Raise(p, exc)
    /\ UNCHANGED <<sheets, worksheet_cache, worksheet_cache_time, now, req, loc,
                   before, histVars, nreq, allocVars>>

AfterWorksheet(r) == IF r.method = "POST" THEN "ids" ELSE "read"

\* get_cached_worksheet with an entry served up to and including its TTL
get_cached_worksheet_at_TTL(p) ==
    /\ pc[p] = "worksheet"
    /\ LET worksheet_name == Target(req[p])
           key == cache_key(worksheet_name)
       IN  IF /\ key \in DOMAIN worksheet_cache
              /\ key \in DOMAIN worksheet_cache_time
              /\ now - worksheet_cache_time[key] <= WORKSHEET_TTL
           THEN /\ loc' = [loc EXCEPT ![p].worksheet = worksheet_cache[key]]
                /\ pc' = [pc EXCEPT ![p] = AfterWorksheet(req[p])]
                /\ UNCHANGED <<worksheet_cache, worksheet_cache_time, resp,
                               response_cache, failed, raised>>
           ELSE \/ /\ worksheet_name \in Worksheets
                   /\ worksheet_cache' = Put(worksheet_cache, key, worksheet_name)
                   /\ worksheet_cache_time' = Put(worksheet_cache_time, key, now)
                   /\ loc' = [loc EXCEPT ![p].worksheet = worksheet_name]
                   /\ pc' = [pc EXCEPT ![p] = AfterWorksheet(req[p])]
                   /\ UNCHANGED <<resp, response_cache, failed, raised>>
                \/ /\ worksheet_name \notin Worksheets
                   /\ Raise(p, "WorksheetNotFound")
                   /\ UNCHANGED <<worksheet_cache, worksheet_cache_time, loc>>
                \/ /\ \E exc \in StoreErrors : Raise(p, exc)
                   /\ UNCHANGED <<worksheet_cache, worksheet_cache_time, loc>>
    /\ UNCHANGED <<sheets, now, req, before, histVars, nreq, allocVars>>

\* get_cached_worksheet, lines 127-148
get_cached_worksheet(p) ==
    /\ pc[p] = "worksheet"
    /\ LET worksheet_name == Target(req[p])
           key == cache_key(worksheet_name)
       IN  IF /\ key \in DOMAIN worksheet_cache
              /\ key \in DOMAIN worksheet_cache_time
              /\ now - worksheet_cache_time[key] < WORKSHEET_TTL
           THEN /\ loc' = [loc EXCEPT ![p].worksheet = worksheet_cache[key]]
                /\ pc' = [pc EXCEPT ![p] = AfterWorksheet(req[p])]
                /\ UNCHANGED <<worksheet_cache, worksheet_cache_time, resp,
                               response_cache, failed, raised>>
           ELSE \/ /\ worksheet_name \in Worksheets
                   /\ worksheet_cache' = Put(worksheet_cache, key, worksheet_name)
                   /\ worksheet_cache_time' = Put(worksheet_cache_time, key, now)
                   /\ loc' = [loc EXCEPT ![p].worksheet = worksheet_name]
                   /\ pc' = [pc EXCEPT ![p] = AfterWorksheet(req[p])]
                   /\ UNCHANGED <<resp, response_cache, failed, raised>>
                \/ /\ worksheet_name \notin Worksheets
                   /\ Raise(p, "WorksheetNotFound")
                   /\ UNCHANGED <<worksheet_cache, worksheet_cache_time, loc>>
                \/ /\ \E exc \in StoreErrors : Raise(p, exc)
                   /\ UNCHANGED <<worksheet_cache, worksheet_cache_time, loc>>
    /\ UNCHANGED <<sheets, now, req, before, histVars, nreq, allocVars>>

\* str.lower()
UPPER == <<"A", "B", "C", "D", "E", "F", "G", "H", "I", "J", "K", "L", "M",
           "N", "O", "P", "Q", "R", "S", "T", "U", "V", "W", "X", "Y", "Z">>

LOWER == <<"a", "b", "c", "d", "e", "f", "g", "h", "i", "j", "k", "l", "m",
           "n", "o", "p", "q", "r", "s", "t", "u", "v", "w", "x", "y", "z">>

LowerChar(c) ==
    IF \E k \in 1..Len(UPPER) : UPPER[k] = c
    THEN LOWER[CHOOSE k \in 1..Len(UPPER) : UPPER[k] = c]
    ELSE c

lower(s) == [i \in 1..Len(s) |-> LowerChar(s[i])]

\* the `in` of two texts
In(q, s) == \E i \in 0..(Len(s) - Len(q)) : SubSeq(s, i + 1, i + Len(q)) = q

\* lines 169-173: the columns searched, in the order of the `or`
SearchCols == <<1, 2, 4, 7, 8>>

\* the k-th operand of the `or`: the identifier goes through str(), the
\* others call .lower() on the cell's value as it is
Operand(busca, peca, k) == In(busca, lower(peca[SearchCols[k]].s))

\* .lower() of a value numericise made a number raises AttributeError
OperandRaises(peca, k) == k > 1 /\ peca[SearchCols[k]].num

\* the operands evaluated: up to the first that is true or raises
Reached(busca, peca, k) ==
    \A j \in 1..(k - 1) : ~OperandRaises(peca, j) /\ ~Operand(busca, peca, j)

PecaRaises(busca, peca) ==
    \E k \in 1..Len(SearchCols) : Reached(busca, peca, k) /\ OperandRaises(peca, k)

PecaMatches(busca, peca) ==
    \E k \in 1..Len(SearchCols) :
        Reached(busca, peca, k) /\ ~OperandRaises(peca, k) /\ Operand(busca, peca, k)

RECURSIVE dados_filtrados(_, _)
dados_filtrados(busca, dados) ==
    IF dados = <<>> THEN <<>>
    ELSE IF PecaMatches(busca, Head(dados))
    THEN <<Head(dados)>> \o dados_filtrados(busca, Tail(dados))
    ELSE dados_filtrados(busca, Tail(dados))

\* lines 161-181, after get_all_records returned dados
ListResponse(r, dados) ==
    LET pagina == Target(r)
        busca == IF r.args.busca = <<>> THEN EMPTY ELSE r.args.busca[1]
    IN  IF busca = EMPTY
        THEN [status |-> 200,
              payload |-> [pagina |-> pagina, total |-> Len(dados), dados |-> dados]]
        ELSE IF \E i \in 1..Len(dados) : PecaRaises(lower(busca), dados[i])
        THEN ErrorResponse("Exception", pagina)
        ELSE LET kept == dados_filtrados(lower(busca), dados)
             IN  [status |-> 200,
                  payload |-> [pagina |-> pagina, total |-> Len(kept), dados |-> kept]]

\* get_pecas from worksheet.get_all_records() on, lines 162-196
get_pecas(p) ==
    /\ pc[p] = "read"
    /\ req[p].method = "GET"
    /\ \/ /\ Reply(p, ListResponse(req[p], get_all_records(sheets[loc[p].worksheet])))
          /\ UNCHANGED <<failed, raised>>
       \/ \E exc \in StoreErrors : Raise(p, exc)
    /\ UNCHANGED <<sheets, worksheet_cache, worksheet_cache_time, now, req, loc,
                   before, histVars, nreq, allocVars>>

\* adicionar_peca, lines 213-225: get_next_id reads the identifier column
adicionar_peca_ids(p) ==
    /\ pc[p] = "ids"
    /\ \E col_ok \in BOOLEAN :
          /\ loc' = [loc EXCEPT ![p].next_id =
                        get_next_id(col_ok, col_values(sheets[loc[p].worksheet]))]
          /\ failed' = [failed EXCEPT ![p] = @ \/ ~col_ok]
    /\ UNCHANGED raised
    /\ pc' = [pc EXCEPT ![p] = "append"]
    /\ UNCHANGED <<storeVars, now, req, resp, before, histVars, nreq, allocVars>>

nova_peca(next, data) ==
    <<next, Get(data, "peca", EMPTY), Get(data, "quantidade", EMPTY),
      Get(data, "material", EMPTY), Get(data, "massa(g)", EMPTY),
      Get(data, "valor($)", EMPTY), Get(data, "descricao", EMPTY),
      Get(data, "fornecedor", EMPTY)>>

\* adicionar_peca with the identifier read again when the row is appended
adicionar_peca_reads_again(p) ==
    /\ pc[p] = "append"
    /\ LET categoria == Target(req[p])
           w == loc[p].worksheet
           fresh == get_next_id(TRUE, col_values(sheets[w]))
           row == nova_peca(fresh, req[p].body[1])
       IN  \/ /\ sheets' = [sheets EXCEPT ![w] = append_row(@, row)]
              /\ worksheet_cache' = Invalidated(worksheet_cache, categoria)
              /\ worksheet_cache_time' = Invalidated(worksheet_cache_time, categoria)
              /\ Reply(p, [status |-> 201,
                           payload |-> [mensagem |-> "Peca adicionada com sucesso",
                                        id |-> fresh]])
              /\ emptied' = emptied \ {w}
              /\ appended' = [appended EXCEPT ![w] = @ \cup {row}]
              /\ UNCHANGED <<failed, raised>>
           \/ /\ \E exc \in StoreErrors : Raise(p, exc)
              /\ UNCHANGED <<sheets, worksheet_cache, worksheet_cache_time, histVars>>
    /\ UNCHANGED <<now, req, loc, before, nreq, allocVars>>

\* adicionar_peca, lines 227-253: append the row, drop the cache entries
adicionar_peca(p) ==
    /\ pc[p] = "append"
    /\ LET categoria == Target(req[p])
           w == loc[p].worksheet
           row == nova_peca(loc[p].next_id, req[p].body[1])
       IN  \/ /\ sheets' = [sheets EXCEPT ![w] = append_row(@, row)]
              /\ worksheet_cache' = Invalidated(worksheet_cache, categoria)
              /\ worksheet_cache_time' = Invalidated(worksheet_cache_time, categoria)
              /\ Reply(p, [status |-> 201,
                           payload |-> [mensagem |-> "Peca adicionada com sucesso",
                                        id |-> loc[p].next_id]])
              /\ emptied' = emptied \ {w}
              /\ appended' = [appended EXCEPT ![w] = @ \cup {row}]
              /\ UNCHANGED <<failed, raised>>
           \/ /\ \E exc \in StoreErrors : Raise(p, exc)
              /\ UNCHANGED <<sheets, worksheet_cache, worksheet_cache_time, histVars>>
    /\ UNCHANGED <<now, req, loc, before, nreq, allocVars>>

\* the lookup with the loop variable left in linha_index: the last row when
\* no record matches
linha_index_last_row(records, peca_id) ==
    IF \E i \in 1..Len(records) : records[i][1].s = peca_id
    THEN 1 + CHOOSE i \in 1..Len(records) :
                 /\ records[i][1].s = peca_id
                 /\ \A j \in 1..(i - 1) : records[j][1].s # peca_id
    ELSE IF records = <<>> THEN 0 ELSE 1 + Len(records)

\* lines 270-275 and 336-341: the sheet row of the first record whose
\* str(ID) is peca_id, counting from 2; 0 stands for None
linha_index(records, peca_id) ==
    IF \E i \in 1..Len(records) : records[i][1].s = peca_id
    THEN 1 + CHOOSE i \in 1..Len(records) :
                 /\ records[i][1].s = peca_id
                 /\ \A j \in 1..(i - 1) : records[j][1].s # peca_id
    ELSE 0

NotFoundResponse ==
    [status |-> 404, payload |-> [erro |-> "Peca nao encontrada"]]

IsInData(data, campo) == campo \in DOMAIN data

\* lines 293-294: the fields of campos the body holds, in order
CamposIn(data) == SelectSeq(campos, LAMBDA campo : IsInData(data, campo))

UpdatedResponse ==
    [status |-> 200, payload |-> [mensagem |-> "Peca atualizada com sucesso"]]

\* atualizar_peca, lines 268-278 (and 299-306 when the body holds no field)
atualizar_peca_lookup(p) ==
    /\ pc[p] = "read"
    /\ req[p].method = "PUT"
    /\ LET categoria == Target(req[p])
           idx == linha_index(get_all_records(sheets[loc[p].worksheet]), req[p].peca_id)
           todo == CamposIn(req[p].body[1])
       IN  \/ /\ idx = 0
              /\ Reply(p, NotFoundResponse)
              /\ UNCHANGED <<loc, worksheet_cache, worksheet_cache_time, failed, raised>>
           \/ /\ idx # 0
              /\ todo # <<>>
              /\ loc' = [loc EXCEPT ![p].linha_index = idx, ![p].todo = todo]
              /\ pc' = [pc EXCEPT ![p] = "write"]
              /\ UNCHANGED <<resp, response_cache, worksheet_cache,
                             worksheet_cache_time, failed, raised>>
           \/ /\ idx # 0
              /\ todo = <<>>
              /\ worksheet_cache' = Invalidated(worksheet_cache, categoria)
              /\ worksheet_cache_time' = Invalidated(worksheet_cache_time, categoria)
              /\ Reply(p, UpdatedResponse)
              /\ UNCHANGED <<loc, failed, raised>>
           \/ /\ \E exc \in StoreErrors : Raise(p, exc)
              /\ UNCHANGED <<loc, worksheet_cache, worksheet_cache_time>>
    /\ UNCHANGED <<sheets, now, req, before, histVars, nreq, allocVars>>

\* atualizar_peca, lines 293-306: one worksheet.update_cell per field, then
\* the cache entries are dropped
atualizar_peca(p) ==
    /\ pc[p] = "write"
    /\ LET categoria == Target(req[p])
           w == loc[p].worksheet
           campo == Head(loc[p].todo)
       IN  \/ /\ sheets' = [sheets EXCEPT ![w] =
                              update_cell(@, loc[p].linha_index, col_indices(campo),
                                          req[p].body[1][campo])]
              /\ loc' = [loc EXCEPT ![p].todo = Tail(@)]
              /\ emptied' = emptied \ {w}
              /\ appended' = [appended EXCEPT ![w] = {}]
              /\ IF Tail(loc[p].todo) = <<>>
                 THEN /\ worksheet_cache' = Invalidated(worksheet_cache, categoria)
                      /\ worksheet_cache_time' =
                             Invalidated(worksheet_cache_time, categoria)
                      /\ Reply(p, UpdatedResponse)
                 ELSE UNCHANGED <<worksheet_cache, worksheet_cache_time, resp, pc,
                                  response_cache>>
              /\ UNCHANGED <<failed, raised>>
           \/ /\ \E exc \in StoreErrors : Raise(p, exc)
              /\ UNCHANGED <<sheets, loc, worksheet_cache, worksheet_cache_time,
                             histVars>>
    /\ UNCHANGED <<now, req, before, nreq, allocVars>>

\* deletar_peca, lines 334-344
deletar_peca_lookup(p) ==
    /\ pc[p] = "read"
    /\ req[p].method = "DELETE"
    /\ LET idx == linha_index(get_all_records(sheets[loc[p].worksheet]), req[p].peca_id)
       IN  \/ /\ idx = 0
              /\ Reply(p, NotFoundResponse)
              /\ UNCHANGED <<loc, failed, raised>>
           \/ /\ idx # 0
              /\ loc' = [loc EXCEPT ![p].linha_index = idx]
              /\ pc' = [pc EXCEPT ![p] = "delete"]
              /\ UNCHANGED <<resp, response_cache, failed, raised>>
           \/ /\ \E exc \in StoreErrors : Raise(p, exc)
              /\ UNCHANGED loc
    /\ UNCHANGED <<sheets, worksheet_cache, worksheet_cache_time, now, req, before,
                   histVars, nreq, allocVars>>

\* deletar_peca with the row looked up again when it is deleted
deletar_peca_looks_again(p) ==
    /\ pc[p] = "delete"
    /\ LET categoria == Target(req[p])
           w == loc[p].worksheet
           idx == linha_index(get_all_records(sheets[w]), req[p].peca_id)
       IN  \/ /\ sheets' = [sheets EXCEPT ![w] =
                              IF idx = 0 THEN @ ELSE delete_rows(@, idx)]
              /\ worksheet_cache' = Invalidated(worksheet_cache, categoria)
              /\ worksheet_cache_time' = Invalidated(worksheet_cache_time, categoria)
              /\ Reply(p, [status |-> 200,
                           payload |-> [mensagem |-> "Peca deletada com sucesso"]])
              /\ emptied' = IF Len(sheets[w]) = 1 /\ sheets'[w] = <<>>
                            THEN emptied \cup {w} ELSE emptied \ {w}
              /\ appended' = [appended EXCEPT ![w] = {}]
              /\ UNCHANGED <<failed, raised>>
           \/ /\ \E exc \in StoreErrors : Raise(p, exc)
              /\ UNCHANGED <<sheets, worksheet_cache, worksheet_cache_time, histVars>>
    /\ UNCHANGED <<now, req, loc, before, nreq, allocVars>>

\* deletar_peca, lines 346-369
deletar_peca(p) ==
    /\ pc[p] = "delete"
    /\ LET categoria == Target(req[p])
           w == loc[p].worksheet
       IN  \/ /\ sheets' = [sheets EXCEPT ![w] = delete_rows(@, loc[p].linha_index)]
              /\ worksheet_cache' = Invalidated(worksheet_cache, categoria)
              /\ worksheet_cache_time' = Invalidated(worksheet_cache_time, categoria)
              /\ Reply(p, [status |-> 200,
                           payload |-> [mensagem |-> "Peca deletada com sucesso"]])
              /\ emptied' = IF Len(sheets[w]) = 1 /\ sheets'[w] = <<>>
                            THEN emptied \cup {w} ELSE emptied \ {w}
              /\ appended' = [appended EXCEPT ![w] = {}]
              /\ UNCHANGED <<failed, raised>>
           \/ /\ \E exc \in StoreErrors : Raise(p, exc)
              /\ UNCHANGED <<sheets, worksheet_cache, worksheet_cache_time, histVars>>
    /\ UNCHANGED <<now, req, loc, before, nreq, allocVars>>

\* SimpleCache never returns an entry once the clock has reached its
\* expiry, so the entry is dropped there
Live(cache, t) == [k \in {x \in DOMAIN cache : cache[x].expires > t} |-> cache[k]]

\* the clock
Tick(t) ==
    /\ t > now
    /\ now' = t
    /\ response_cache' = Live(response_cache, t)
    /\ UNCHANGED <<sheets, worksheet_cache, worksheet_cache_time, pc, req, loc, resp,
                   failed, raised, before, histVars, nreq, allocVars>>

(***************************************************************************)
(* The service: requests handled one at a time (Spec) or interleaved       *)
(* (ConcSpec).                                                             *)
(***************************************************************************)
ServiceInit ==
    /\ sheets \in [Worksheets -> InitSheets]
    /\ worksheet_cache = <<>>
    /\ worksheet_cache_time = <<>>
    /\ response_cache = <<>>
    /\ now = 0
    /\ pc = [p \in Procs |-> "idle"]
    /\ req = [p \in Procs |-> NoReq]
    /\ loc = [p \in Procs |-> NoLoc]
    /\ resp = [p \in Procs |-> NoResp]
    /\ failed = [p \in Procs |-> FALSE]
    /\ raised = [p \in Procs |-> ""]
    /\ before = [p \in Procs |-> NoBefore]
    /\ emptied = {}
    /\ appended = [w \in Worksheets |-> {}]
    /\ nreq = 0
    /\ next_id = EMPTY
    /\ alloc_done = FALSE

Init == ServiceInit /\ coluna_ids = NoColumn

Step(p) ==
    \/ Open(p)
    \/ get_cached_worksheet(p)
    \/ get_pecas(p)
    \/ adicionar_peca_ids(p)
    \/ adicionar_peca(p)
    \/ atualizar_peca_lookup(p)
    \/ atualizar_peca(p)
    \/ deletar_peca_lookup(p)
    \/ deletar_peca(p)

\* one request at a time, in the first slot, the clock read between requests
Quiet == \A p \in Procs : pc[p] \in {"idle", "done"}

Next ==
    \/ \E r \in Requests : nreq < MaxRequests /\ Start(1, r)
    \/ Step(1)
    \/ \E t \in TimePoints : Quiet /\ Tick(t)

Spec == Init /\ [][Next]_vars

\* the same, for the list, create and delete requests that pass validation
CacheRequests ==
    {r \in Requests :
        /\ r.method \in {"GET", "POST", "DELETE"}
        /\ r.args.busca = <<>>
        /\ r.method # "GET" => Validation(r.body) = NoResp /\ Target(r) \in Worksheets}

CacheStep(p) ==
    \/ Open(p)
    \/ get_cached_worksheet(p)
    \/ get_pecas(p)
    \/ adicionar_peca_ids(p)
    \/ adicionar_peca(p)
    \/ deletar_peca_lookup(p)
    \/ deletar_peca(p)

CacheNext ==
    \/ \E r \in CacheRequests : nreq < MaxCacheRequests /\ Start(1, r)
    \/ CacheStep(1)
    \/ \E t \in TimePoints : Quiet /\ Tick(t)

CacheSpec == Init /\ [][CacheNext]_vars

\* requests interleaved: the writes that pass validation
ConcRequests ==
    {r \in Requests :
        /\ r.method # "GET"
        /\ Validation(r.body) = NoResp
        /\ Target(r) \in Worksheets}

WriteStep(p) ==
    \/ Open(p)
    \/ get_cached_worksheet(p)
    \/ adicionar_peca_ids(p)
    \/ adicionar_peca(p)
    \/ atualizar_peca_lookup(p)
    \/ atualizar_peca(p)
    \/ deletar_peca_lookup(p)
    \/ deletar_peca(p)

\* the writes that race: a create, the deletes, the updates of two fields
RaceRequests ==
    {r \in ConcRequests :
        \/ r.method = "POST" /\ DOMAIN r.body[1] = {"categoria"}
        \/ r.method = "DELETE"
        \/ r.method = "PUT" /\ "material" \in DOMAIN r.body[1]}

\* on collections of two or three rows
ConcInit == Init /\ \A w \in Worksheets : Len(sheets[w]) >= 2

ConcNext ==
    \/ \E p \in Procs, r \in RaceRequests : nreq < MaxRequests /\ Start(p, r)
    \/ \E p \in Procs : WriteStep(p)

ConcSpec == ConcInit /\ [][ConcNext]_vars

\* every row carries an identifier of digits, no two the same number
DistinctIntegerIds(rows) ==
    /\ \A i \in 1..Len(rows) : isdigit(rows[i][1])
    /\ \A i, j \in 1..Len(rows) : i # j => PyInt(rows[i][1]) # PyInt(rows[j][1])

\* creates, updates and deletes one at a time on collections of distinct
\* integer identifiers, no store call failing
SeqInit == Init /\ \A w \in Worksheets : DistinctIntegerIds(sheets[w])

\* the step of slot p in which no store call raises
NoFailure(p) == ~failed'[p]

SeqStep(p) ==
    \/ Open(p) /\ NoFailure(p)
    \/ get_cached_worksheet(p) /\ NoFailure(p)
    \/ adicionar_peca_ids(p) /\ NoFailure(p)
    \/ adicionar_peca(p) /\ NoFailure(p)
    \/ atualizar_peca_lookup(p) /\ NoFailure(p)
    \/ atualizar_peca(p) /\ NoFailure(p)
    \/ deletar_peca_lookup(p) /\ NoFailure(p)
    \/ deletar_peca(p) /\ NoFailure(p)

SeqNext ==
    \/ \E r \in ConcRequests : nreq < MaxRequests /\ Start(1, r)
    \/ SeqStep(1)

SeqSpec == SeqInit /\ [][SeqNext]_vars

(***************************************************************************)
(* The allocator alone: get_next_id on an identifier column.               *)
(***************************************************************************)
AllocIds ==
    { EMPTY, t1, t007, <<"9">>, <<"9", "9", "9">>, tBig,
      <<"1", ".", "5">>, <<"1", ".", "2", ".", "3">>,
      tX, <<"A", "1">>,
      <<"C", "R", "-", "0", "0", "0">>, <<"C", "R", "-", "0", "0", "7">>,
      <<"C", "R", "-", "9", "9", "9">> }

RECURSIVE SeqsUpTo(_, _)
SeqsUpTo(S, n) ==
    IF n = 0 THEN {<<>>}
    ELSE SeqsUpTo(S, n - 1) \cup {Append(q, x) : q \in SeqsUpTo(S, n - 1), x \in S}

AllocInit ==
    /\ ServiceInit
    /\ sheets = [w \in Worksheets |-> <<>>]
    /\ \E cells \in SeqsUpTo(AllocIds, MaxIds), header \in {<<>>, <<ID_HEADER>>} :
          coluna_ids = header \o cells

Allocate ==
    /\ ~alloc_done
    /\ next_id' = get_next_id(TRUE, coluna_ids)
    /\ alloc_done' = TRUE
    /\ UNCHANGED <<storeVars, now, pc, req, loc, resp, failed, raised, before, histVars, nreq,
                   coluna_ids>>

AllocSpec == AllocInit /\ [][Allocate]_vars

(***************************************************************************)
(* Claims about the allocator (AllocSpec).                                 *)
(***************************************************************************)
\* the identifiers of the column given: the header cell and the empty cells
\* dropped
GivenIds ==
    SelectSeq(IF coluna_ids # <<>> /\ coluna_ids[1] = ID_HEADER
              THEN Tail(coluna_ids) ELSE coluna_ids, IsNonEmpty)

\* what stands before the digits that end an identifier
Stem(id) == SubSeq(id, 1, Len(id) - TrailingRun(id))

AllDigitStrings(ids) == \A i \in 1..Len(ids) : isdigit(ids[i])

SharedPrefixForm(ids) ==
    \A i \in 1..Len(ids) : TrailingRun(ids[i]) >= 1 /\ Stem(ids[i]) = Stem(ids[1])

\* the largest of a non-empty set of numbers
Largest(nums) == CHOOSE m \in nums : \A n \in nums : ~NatLess(m, n)

LargestTrailing(ids) == Largest({PyInt(TrailingDigits(ids[i])) : i \in 1..Len(ids)})

\* C1: for a non-empty collection whose identifiers are all digit strings,
\* or all one shared prefix followed by digits, get_next_id returns a text
\* that is none of the identifiers in the collection.
C1_ReturnsUnusedId ==
    (alloc_done /\ GivenIds # <<>>
        /\ (AllDigitStrings(GivenIds) \/ SharedPrefixForm(GivenIds)))
    => \A i \in 1..Len(GivenIds) : next_id # GivenIds[i]

\* C2: for alphanumeric identifiers that share one prefix and each end in
\* digits (also when the largest number is 0), the allocator returns the
\* prefix followed by the largest number plus 1, zero-padded to 3 digits.
C2_PrefixAndNextNumber ==
    (alloc_done /\ GivenIds # <<>> /\ SharedPrefixForm(GivenIds)
        /\ ~isdigit(replace_dots(GivenIds[1])))
    => next_id = Stem(GivenIds[1])
                   \o ZeroPad(PyStr(NatInc(LargestTrailing(GivenIds))), PadWidth)

\* C3: for a non-empty set of digit-only identifiers, get_next_id returns the
\* decimal text of the largest identifier plus 1.
C3_NumericMaxPlusOne ==
    (alloc_done /\ GivenIds # <<>> /\ AllDigitStrings(GivenIds))
    => next_id = PyStr(NatInc(LargestTrailing(GivenIds)))

(***************************************************************************)
(* Claims about the handlers (Spec, CacheSpec).                            *)
(***************************************************************************)
\* the request in slot p has been answered
Answered(p) == pc[p] = "done"

\* the body names a category and the category is a worksheet
NamesWorksheet(r) ==
    /\ ~NotData(r.body)
    /\ Get(r.body[1], "categoria", "") \in Worksheets

NoIdCells(rows) == \A i \in 1..Len(rows) : rows[i][1] = EMPTY

\* C4: a create request with a valid category, against a collection with no
\* non-empty identifier cell, is assigned "1", appends exactly one row whose
\* first cell is "1", and answers 201 with that id (no store call failing).
C4_FirstCreateGetsOne ==
    \A p \in Procs :
        (/\ Answered(p)
         /\ req[p].method = "POST"
         /\ NamesWorksheet(req[p])
         /\ NoIdCells(before[p].sheets[Target(req[p])])
         /\ ~failed[p])
        => /\ resp[p].status = 201
           /\ resp[p].payload.id = ONE
           /\ \E row \in {nova_peca(ONE, req[p].body[1])} :
                 /\ row[1] = ONE
                 /\ sheets[Target(req[p])]
                      = Append(before[p].sheets[Target(req[p])], row)

C4_Witness ==
    /\ Answered(1)
    /\ req[1].method = "POST"
    /\ NamesWorksheet(req[1])
    /\ NoIdCells(before[1].sheets["freios"])
    /\ before[1].sheets["freios"] # <<>>
    /\ resp[1].status = 201
    /\ resp[1].payload.id = ONE
    /\ Len(sheets["freios"]) = Len(before[1].sheets["freios"]) + 1

\* C5: after a delete has succeeded on the only record of a category, every
\* later list request for the category returns total 0, also one with the
\* query string of a list answered less than 10 seconds before the delete.
C5_ListAfterDeleteIsEmpty ==
    \A p \in Procs :
        (/\ Answered(p)
         /\ req[p].method = "GET"
         /\ Target(req[p]) \in emptied
         /\ resp[p].status = 200)
        => resp[p].payload.total = 0

\* C6: after a create has succeeded for a collection, any later list request
\* for the collection returns a result that contains the new row.
C6_ListAfterCreateHasRow ==
    \A p \in Procs :
        (/\ Answered(p)
         /\ req[p].method = "GET"
         /\ req[p].args.busca = <<>>
         /\ Target(req[p]) \in Worksheets
         /\ resp[p].status = 200)
        => \A row \in appended[Target(req[p])] :
              \E i \in 1..Len(resp[p].payload.dados) :
                  resp[p].payload.dados[i] = get_all_records(<<row>>)[1]

\* the path identifier is the stringified identifier of no row
NoRowHasId(rows, peca_id) ==
    \A i \in 1..Len(rows) : numericise(rows[i][1]).s # peca_id

\* C7: an update request whose path identifier is the stringified identifier
\* of no row of the named collection performs no write, every cell staying
\* as it was, and answers 404 (no store call failing).
C7_UpdateUnknownId ==
    \A p \in Procs :
        (/\ req[p].method = "PUT"
         /\ NamesWorksheet(req[p])
         /\ NoRowHasId(before[p].sheets[Target(req[p])], req[p].peca_id))
        => /\ sheets = before[p].sheets
           /\ (Answered(p) /\ ~failed[p]) => resp[p] = NotFoundResponse

C7_Witness ==
    /\ Answered(1)
    /\ req[1].method = "PUT"
    /\ NamesWorksheet(req[1])
    /\ before[1].sheets["freios"] # <<>>
    /\ NoRowHasId(before[1].sheets["freios"], req[1].peca_id)
    /\ CamposIn(req[1].body[1]) # <<>>
    /\ resp[1] = NotFoundResponse

\* C8: a request that had a store call fail answers 404, 502 or 500, never a
\* success status; a failure of the identifier-column read during a create
\* does not end in a 201.
C8_StoreFailureSurfaced ==
    \A p \in Procs :
        (Answered(p) /\ failed[p]) => resp[p].status \in {404, 502, 500}

\* C9: an update request either answers 200 with every recognized field of
\* the body written to the matched row, or answers an error with no cell of
\* the collection changed.
C9_UpdateAllOrNothing ==
    \A p \in Procs :
        (Answered(p) /\ req[p].method = "PUT" /\ NamesWorksheet(req[p]))
        => \/ /\ resp[p].status = 200
              /\ \A k \in 1..Len(CamposIn(req[p].body[1])) :
                    LET campo == CamposIn(req[p].body[1])[k]
                    IN  sheets[Target(req[p])][loc[p].linha_index - 1][col_indices(campo)]
                          = req[p].body[1][campo]
           \/ /\ resp[p].status # 200
              /\ sheets = before[p].sheets

\* the body is missing or empty, or its "categoria" is
BodyInvalid(r) == NotData(r.body) \/ Get(r.body[1], "categoria", "") = ""

\* C10: a create, update or delete request with a missing or empty body, or
\* a missing or empty "categoria", answers 400 before any store call: it is
\* answered at once, no store call fails, and the sheets and the worksheet
\* cache are as they were.
C10_InvalidBodyIs400 ==
    \A p \in Procs :
        (req[p].method \in {"POST", "PUT", "DELETE"} /\ BodyInvalid(req[p]))
        => /\ Answered(p)
           /\ resp[p].status = 400
           /\ ~failed[p]
           /\ sheets = before[p].sheets
           /\ worksheet_cache = before[p].worksheet_cache
           /\ worksheet_cache_time = before[p].worksheet_cache_time

C10_Witness ==
    /\ Answered(1)
    /\ req[1].method = "POST"
    /\ req[1].body = << [peca |-> tX] >>
    /\ resp[1].status = 400
    /\ worksheet_cache # <<>>
    /\ sheets["freios"] # <<>>

\* the query of a list request, '' when absent
QueryOf(r) == IF r.args.busca = <<>> THEN EMPTY ELSE r.args.busca[1]

\* the text of a searched field of a row: the identifier stringified, the
\* other cells as they stand
FieldText(row, c) == IF c = 1 THEN numericise(row[1]).s ELSE row[c]

\* the lowercased query is within one of the five searched fields
RowHasQuery(q, row) ==
    \E c \in {1, 2, 4, 7, 8} : In(lower(q), lower(FieldText(row, c)))

\* the rows a list request is to return, in store order
RowsToList(r, rows) ==
    IF QueryOf(r) = EMPTY THEN rows
    ELSE SelectSeq(rows, LAMBDA row : RowHasQuery(QueryOf(r), row))

\* the request in slot p went to the store for its worksheet
ReadFromStore(p) == loc[p].worksheet = Target(req[p])

\* C11: a list request that reads the collection (no store call failing)
\* answers with exactly the rows, in store order, whose identifier, name,
\* material, description or supplier holds the lowercased query, all rows
\* when the query is empty or absent, and "total" is the number of rows.
C11_ListReturnsMatches ==
    \A p \in Procs :
        (/\ Answered(p)
         /\ req[p].method = "GET"
         /\ Target(req[p]) \in Worksheets
         /\ ReadFromStore(p)
         /\ ~failed[p])
        => /\ resp[p].status = 200
           /\ resp[p].payload.dados
                = get_all_records(RowsToList(req[p], sheets[Target(req[p])]))
           /\ resp[p].payload.total = Len(resp[p].payload.dados)

\* the worksheet cache holds nothing under the name
NotCached(worksheet_name) ==
    /\ cache_key(worksheet_name) \notin DOMAIN worksheet_cache
    /\ cache_key(worksheet_name) \notin DOMAIN worksheet_cache_time

\* C12: a list request whose pagina names no collection of the store never
\* gets a worksheet and, unless it answers 502 or 500, answers 404 with a
\* payload naming the page; a WorksheetNotFound answers 404, an APIError 502,
\* any other exception 500; a failed worksheet lookup stores nothing in the
\* worksheet cache, which holds no entry for an unknown name.
C12_ListErrors ==
    \A p \in Procs :
        req[p].method = "GET"
        => /\ Target(req[p]) \notin Worksheets
                => /\ pc[p] # "read"
                   /\ NotCached(Target(req[p]))
                   /\ Answered(p) => resp[p].status \in {404, 502, 500}
           /\ (Answered(p) /\ (raised[p] = "WorksheetNotFound" \/ resp[p].status = 404))
                => /\ Target(req[p]) \notin Worksheets
                   /\ resp[p].status = 404
                   /\ resp[p].payload.pagina = Target(req[p])
           /\ (Answered(p) /\ raised[p] = "APIError") => resp[p].status = 502
           /\ (Answered(p) /\ raised[p] = "Exception") => resp[p].status = 500
           /\ (Answered(p) /\ raised[p] # "" /\ loc[p].worksheet = "")
                => /\ worksheet_cache = before[p].worksheet_cache
                   /\ worksheet_cache_time = before[p].worksheet_cache_time

C12_Witness ==
    /\ Answered(1)
    /\ req[1].method = "GET"
    /\ Target(req[1]) = "nope"
    /\ raised[1] = "WorksheetNotFound"
    /\ resp[1].status = 404
    /\ resp[1].payload.pagina = "nope"
    /\ ~NotCached("freios")
    /\ NotCached("nope")

(***************************************************************************)
(* Claims about interleaved requests (ConcSpec).                           *)
(***************************************************************************)
\* the create in slot p has read the identifier column and not yet appended
HoldsId(p) ==
    /\ pc[p] = "append"
    /\ req[p].method = "POST"
    /\ ~failed[p]

\* both creates hold an identifier for worksheet w, read from the column as
\* it still is
BothHoldId(p, q, w) ==
    /\ p # q
    /\ HoldsId(p) /\ HoldsId(q)
    /\ loc[p].worksheet = w /\ loc[q].worksheet = w
    /\ sheets[w] = before[p].sheets[w]
    /\ sheets[w] = before[q].sheets[w]

\* the create in slot p appends its row and answers
Appends(p) == HoldsId(p) /\ pc'[p] = "done" /\ ~failed'[p]

\* C13: two creates for one collection that both read the identifier column
\* before either appends hold the same identifier, and each, whatever was
\* appended meanwhile, answers 201 with the identifier it holds and appends
\* a row that starts with it: two rows with equal identifiers result.
C13_CreatesRaceOnId ==
    /\ [](\A p, q \in Procs, w \in Worksheets :
             BothHoldId(p, q, w) => loc[p].next_id = loc[q].next_id)
    /\ [][\A p \in Procs :
             Appends(p)
             => /\ resp'[p].status = 201
                /\ resp'[p].payload.id = loc[p].next_id
                /\ sheets'[loc[p].worksheet]
                     = Append(sheets[loc[p].worksheet],
                              nova_peca(loc[p].next_id, req[p].body[1]))]_vars

C13_Witness ==
    /\ Answered(1) /\ Answered(2)
    /\ req[1].method = "POST" /\ req[2].method = "POST"
    /\ ~failed[1] /\ ~failed[2]
    /\ resp[1].status = 201 /\ resp[2].status = 201
    /\ resp[1].payload.id = resp[2].payload.id
    /\ before[1].sheets["freios"] = <<Row(t1, tAb, EMPTY), Row(t2, tX, t7)>>
    /\ before[2].sheets = before[1].sheets
    /\ Len(sheets["freios"]) = 4
    /\ sheets["freios"][3][1] = resp[1].payload.id
    /\ sheets["freios"][4][1] = resp[1].payload.id

\* rows without the k-th
WithoutRow(rows, k) == SubSeq(rows, 1, k - 1) \o SubSeq(rows, k + 1, Len(rows))

\* the data row the request in slot p found, counted without the header
FoundRow(p) == loc[p].linha_index - 1

\* the request in slot p has looked its row up, and the sheet has since lost
\* an earlier row: at the index found stands a row with another identifier,
\* or none
StaleIndex(p) ==
    /\ pc[p] \in {"write", "delete"}
    /\ ~failed[p]
    /\ \/ FoundRow(p) > Len(sheets[loc[p].worksheet])
       \/ numericise(sheets[loc[p].worksheet][FoundRow(p)][1]).s # req[p].peca_id

\* C14: a delete or update whose index went stale between lookup and
\* mutation acts on the index all the same and answers 200: the delete
\* removes the row now at the index (nothing when the index is past the
\* end), the update writes into the row now at the index (a new row when it
\* is past the end); that row does not carry the path identifier.
C14_ActsOnStaleIndex ==
    [][\A p \in Procs :
          LET w == loc[p].worksheet
              k == FoundRow(p)
          IN  /\ (StaleIndex(p) /\ pc[p] = "delete" /\ pc'[p] = "done" /\ ~failed'[p])
                   => /\ resp'[p].status = 200
                      /\ sheets'[w] = IF k <= Len(sheets[w])
                                      THEN WithoutRow(sheets[w], k) ELSE sheets[w]
              /\ (StaleIndex(p) /\ pc[p] = "write" /\ loc'[p].todo = Tail(loc[p].todo))
                   => /\ Len(sheets'[w]) = IF k <= Len(sheets[w]) THEN Len(sheets[w]) ELSE k
                      /\ sheets'[w][k][col_indices(Head(loc[p].todo))]
                           = req[p].body[1][Head(loc[p].todo)]
                      /\ numericise(sheets'[w][k][1]).s # req[p].peca_id
                      /\ pc'[p] = "done" => resp'[p].status = 200]_vars

C14_Witness ==
    \E p, q \in Procs :
        /\ p # q
        /\ Answered(p) /\ Answered(q)
        /\ req[p].method = "DELETE" /\ req[p].peca_id = t7
        /\ req[q].method = "DELETE" /\ req[q].peca_id = t2
        /\ resp[p].status = 200 /\ resp[q].status = 200
        /\ ~failed[p] /\ ~failed[q]
        /\ before[p].sheets["freios"]
             = <<Row(t2, tX, EMPTY), Row(t7, tY, EMPTY), Row(t1, tAb, EMPTY)>>
        /\ sheets["freios"] = <<Row(t7, tY, EMPTY)>>

(***************************************************************************)
(* Claims about one request at a time (Spec), continued.                   *)
(***************************************************************************)
\* rows carrying the identifier, as the path gives it
RowsWithId(rows, peca_id) ==
    {i \in 1..Len(rows) : numericise(rows[i][1]).s = peca_id}

\* the first of them, top to bottom
FirstWithId(rows, peca_id) ==
    CHOOSE i \in RowsWithId(rows, peca_id) :
        \A j \in RowsWithId(rows, peca_id) : i <= j

\* the fixed column of a field of the body that an update writes, 0 for
\* what it does not write
ColumnWritten(field) ==
    CASE field = "peca" -> 2
      [] field = "quantidade" -> 3
      [] field = "material" -> 4
      [] field = "massa(g)" -> 5
      [] field = "valor($)" -> 6
      [] field = "descricao" -> 7
      [] field = "fornecedor" -> 8
      [] OTHER -> 0

\* the cell at row i, column c after an update of row k with the body data
CellAfterUpdate(rows, k, data, i, c) ==
    IF i = k /\ \E field \in DOMAIN data : ColumnWritten(field) = c
    THEN data[CHOOSE field \in DOMAIN data : ColumnWritten(field) = c]
    ELSE rows[i][c]

\* C15: a successful update, requests running one at a time, changes only
\* the first row whose stringified identifier is the path identifier: each
\* recognized field of the body is in its fixed column of that row, every
\* other cell (fields absent from the body, the identifier, other rows with
\* the same identifier) is as it was.
C15_UpdateWritesFirstMatch ==
    \A p \in Procs :
        (/\ Answered(p)
         /\ req[p].method = "PUT"
         /\ NamesWorksheet(req[p])
         /\ resp[p].status = 200)
        => LET w == Target(req[p])
               rows == before[p].sheets[w]
           IN  /\ RowsWithId(rows, req[p].peca_id) # {}
               /\ Len(sheets[w]) = Len(rows)
               /\ \A i \in 1..Len(rows), c \in 1..NumCols :
                     sheets[w][i][c]
                       = CellAfterUpdate(rows, FirstWithId(rows, req[p].peca_id),
                                         req[p].body[1], i, c)

C15_Witness ==
    /\ Answered(1)
    /\ req[1].method = "PUT"
    /\ req[1].peca_id = t2
    /\ req[1].body = << [categoria |-> "freios", peca |-> tY, material |-> tX] >>
    /\ resp[1].status = 200
    /\ before[1].sheets["freios"] = <<Row(t2, tX, EMPTY), Row(t2, tY, EMPTY)>>
    /\ sheets["freios"] = <<Row(t2, tY, tX), Row(t2, tY, EMPTY)>>

\* C16: a delete, requests running one at a time and no store call
\* failing, answers 200 and removes exactly the first row whose stringified
\* identifier is the path identifier, the other rows staying as they were
\* and in their order; when no row matches it answers 404 and removes
\* nothing.
C16_DeleteRemovesFirstMatch ==
    \A p \in Procs :
        (/\ Answered(p)
         /\ req[p].method = "DELETE"
         /\ NamesWorksheet(req[p])
         /\ ~failed[p])
        => LET w == Target(req[p])
               rows == before[p].sheets[w]
           IN  IF RowsWithId(rows, req[p].peca_id) = {}
               THEN /\ resp[p] = NotFoundResponse
                    /\ sheets = before[p].sheets
               ELSE /\ resp[p].status = 200
                    /\ sheets[w] = WithoutRow(rows, FirstWithId(rows, req[p].peca_id))

C16_Witness ==
    /\ Answered(1)
    /\ req[1].method = "DELETE"
    /\ req[1].peca_id = t2
    /\ resp[1].status = 200
    /\ before[1].sheets["freios"] = <<Row(t2, tX, EMPTY), Row(t2, tY, EMPTY)>>
    /\ sheets["freios"] = <<Row(t2, tY, EMPTY)>>

\* the worksheet lookup of slot p hands a worksheet to its handler
LookupReturns(p) == pc[p] = "worksheet" /\ pc'[p] \in {"ids", "read"}

\* C17: the worksheet cache serves an entry only while less than its TTL
\* has passed since the entry was stored, and otherwise fetches from the
\* store and stamps the entry anew; after a successful create, update or
\* delete no entry or timestamp for the collection is left.
C17_WorksheetCacheTTL ==
    /\ [][\A p \in Procs :
             LookupReturns(p)
             => LET name == Target(req[p])
                    key == cache_key(name)
                IN  \/ /\ key \in DOMAIN worksheet_cache
                       /\ key \in DOMAIN worksheet_cache_time
                       /\ now - worksheet_cache_time[key] < 300
                       /\ loc'[p].worksheet = worksheet_cache[key]
                       /\ UNCHANGED <<worksheet_cache, worksheet_cache_time>>
                    \/ /\ \/ NotCached(name)
                          \/ now - worksheet_cache_time[key] >= 300
                       /\ loc'[p].worksheet = name
                       /\ worksheet_cache'[key] = name
                       /\ worksheet_cache_time'[key] = now]_vars
    /\ [](\A p \in Procs :
             (/\ Answered(p)
              /\ req[p].method \in {"POST", "PUT", "DELETE"}
              /\ resp[p].status \in {200, 201})
             => NotCached(Target(req[p])))

C17_Witness ==
    /\ Answered(1)
    /\ req[1].method = "POST"
    /\ resp[1].status = 201
    /\ now = 300
    /\ cache_key("freios") \in DOMAIN before[1].worksheet_cache_time
    /\ before[1].worksheet_cache_time[cache_key("freios")] = 5
    /\ NotCached("freios")

(***************************************************************************)
(* Claims about creates, updates and deletes in sequence (SeqSpec).        *)
(***************************************************************************)
\* C18: from a collection of pairwise distinct integer identifiers, after
\* any sequence of creates, updates and deletes run one at a time with no
\* store failure, the identifiers are pairwise distinct: a create is given
\* an identifier greater than every identifier present, and an update leaves
\* the identifier column as it was.
C18_IdsStayDistinct ==
    /\ \A w \in Worksheets : DistinctIntegerIds(sheets[w])
    /\ \A p \in Procs :
          (Answered(p) /\ req[p].method = "POST" /\ resp[p].status = 201)
          => \A i \in 1..Len(before[p].sheets[Target(req[p])]) :
                NatLess(PyInt(before[p].sheets[Target(req[p])][i][1]),
                        PyInt(resp[p].payload.id))
    /\ \A p \in Procs :
          (Answered(p) /\ req[p].method = "PUT")
          => /\ Len(sheets[Target(req[p])]) = Len(before[p].sheets[Target(req[p])])
             /\ \A i \in 1..Len(sheets[Target(req[p])]) :
                   sheets[Target(req[p])][i][1] = before[p].sheets[Target(req[p])][i][1]

====
